---- MODULE Spec2Model ----
(***************************************************************************)
(* Model of generate_index.py: create_music_index walks root -> artist ->  *)
(* album -> file, groups audio files per album key and writes index.json.  *)
(* File names are sequences of one-character strings; the code's string    *)
(* functions (startswith, endswith, lower, NFC normalisation, splitext)    *)
(* are operators over such sequences.  Directory listings are inputs of    *)
(* the environment, drawn when os.listdir is called.                       *)
(***************************************************************************)
EXTENDS Integers, Sequences, FiniteSets, TLC

\* Total number of directory entries the listings of one run return.
MaxEntries == 5

----------------------------------------------------------------------------
\* Characters.  "U+0301" is COMBINING ACUTE ACCENT, "U+00E9" is the
\* precomposed e-acute, "U+DCFF" is the lone surrogate os.listdir yields
\* for the undecodable byte 0xFF (surrogateescape).
COMBINING_ACUTE == "U+0301"
E_ACUTE == "U+00E9"
SURROGATE == "U+DCFF"

\* ---- str methods ---------------------------------------------------------
startswith(s, p) ==
    /\ Len(s) >= Len(p)
    /\ SubSeq(s, 1, Len(p)) = p

endswith(s, p) ==
    /\ Len(s) >= Len(p)
    /\ SubSeq(s, Len(s) - Len(p) + 1, Len(s)) = p

lowerChar(c) ==
    CASE c = "F" -> "f"
      [] c = "L" -> "l"
      [] c = "A" -> "a"
      [] c = "C" -> "c"
      [] OTHER -> c

lower(s) == [i \in 1..Len(s) |-> lowerChar(s[i])]

\* Highest index of character c in s, 0 when absent (str.rfind, 1-based).
rfind(s, c) ==
    LET hits == {i \in 1..Len(s) : s[i] = c}
    IN  IF hits = {} THEN 0 ELSE CHOOSE i \in hits : \A j \in hits : j <= i

\* ---- unicodedata.normalize('NFC', s) ------------------------------------
\* Canonical composition over the alphabet of the model: the starter "e"
\* followed by the combining acute composes to the precomposed e-acute.
RECURSIVE NFC(_)
NFC(s) ==
    IF Len(s) = 0 THEN <<>>
    ELSE IF Len(s) >= 2 /\ s[1] = "e" /\ s[2] = COMBINING_ACUTE
         THEN <<E_ACUTE>> \o NFC(SubSeq(s, 3, Len(s)))
         ELSE <<s[1]>> \o NFC(Tail(s))

\* ---- os.path.splitext ----------------------------------------------------
\* Splits at the last dot that follows the last separator, ignoring leading
\* dots of the last component: returns <<root, ext>>.
splitext(p) ==
    LET sepIndex == rfind(p, "/")
        dotIndex == rfind(p, ".")
        named == \E k \in (sepIndex + 1)..(dotIndex - 1) : p[k] # "."
    IN  IF dotIndex > sepIndex /\ named
        THEN <<SubSeq(p, 1, dotIndex - 1), SubSeq(p, dotIndex, Len(p))>>
        ELSE <<p, <<>>>>

\* ---- the audio extension allow-list (line 42) ----------------------------
AudioExtensions ==
    { <<".", "m", "p", "3">>, <<".", "m", "4", "a">>,
      <<".", "f", "l", "a", "c">>, <<".", "w", "a", "v">> }

isAudioName(song_filename) ==
    \E ext \in AudioExtensions : endswith(lower(song_filename), ext)

\* ---- name construction (lines 32, 47) ------------------------------------
albumKey(artist_name_norm, album_name_norm) ==
    artist_name_norm \o <<"-">> \o album_name_norm

relativePath(artist_name_norm, album_name_norm, song_filename_norm) ==
    artist_name_norm \o <<"/">> \o album_name_norm \o <<"/">> \o song_filename_norm

isHidden(name) == startswith(name, <<".">>)

\* The test without its hidden-name half.
isVisitedAnyName(entry) == entry.isdir

\* The test of lines 23 and 26 on a directory entry.
isVisited(entry) == entry.isdir /\ ~isHidden(entry.name)

----------------------------------------------------------------------------
\* ---- the environment: what os.listdir can return -------------------------
\* A directory entry is [name, isdir]; isdir is the answer of os.path.isdir.
Entry(name, isdir) == [name |-> name, isdir |-> isdir]

\* Entries of the root folder: artist directories whose names compose to the
\* same NFC form, one whose name contains the key separator, a hidden
\* directory and a plain file (such as index.json itself).
RootEntries ==
    { Entry(<<"e", COMBINING_ACUTE>>, TRUE),
      Entry(<<E_ACUTE>>, TRUE),
      Entry(<<E_ACUTE, "-", "b">>, TRUE),
      Entry(<<".", "h">>, TRUE),
      Entry(<<"i">>, FALSE) }

\* Entries of an artist directory.
ArtistEntries ==
    { Entry(<<"e", COMBINING_ACUTE>>, TRUE),
      Entry(<<E_ACUTE>>, TRUE),
      Entry(<<"b", "-", E_ACUTE>>, TRUE),
      Entry(<<".", "h">>, TRUE),
      Entry(<<"n">>, FALSE) }

\* Entries of an album directory.
AlbumEntries ==
    { Entry(<<"e", COMBINING_ACUTE, ".", "m", "p", "3">>, FALSE),
      Entry(<<"t", ".", "x", ".", "F", "L", "A", "C">>, FALSE),
      Entry(<<".", "m", "p", "3">>, FALSE),
      Entry(<<"c", ".", "j", "p", "g">>, FALSE),
      Entry(<<"d", ".", "w", "a", "v">>, TRUE),
      Entry(<<SURROGATE, ".", "m", "4", "a">>, FALSE) }

\* The listings of at most n entries over a pool: names are distinct within
\* one directory, the order is the file system's.
RECURSIVE Listings(_, _)
Listings(pool, n) ==
    IF n = 0 THEN {<<>>}
    ELSE {<<>>} \cup
         UNION { { <<e>> \o l : l \in Listings({x \in pool : x.name # e.name}, n - 1) }
                 : e \in pool }

----------------------------------------------------------------------------
VARIABLES
    pc,          \* position in create_music_index
    artists,     \* entries of the root listing not yet iterated (line 20)
    artist_name, \* raw name of the artist directory being iterated
    albums,      \* entries of the artist listing not yet iterated (line 24)
    all_albums,  \* the dict of line 15, in insertion order: [key, value]
    album_list,  \* line 60
    next_id,     \* number of ids drawn from uuid.uuid4 so far
    stdout,      \* messages printed
    out_file,    \* the output file: [state, albums]
    listed,      \* history: the os.listdir calls made, [path, ok, entries]
    origin       \* history: origin[id] is the directory entry song id came from

vars == <<pc, artists, artist_name, albums, all_albums, album_list, next_id,
          stdout, out_file, listed, origin>>

\* The output file before the run: whatever a previous run left.
OldFile == [state |-> "old", albums |-> <<>>]

RECURSIVE EntriesIn(_)
EntriesIn(calls) ==
    IF calls = <<>> THEN 0 ELSE Len(Head(calls).entries) + EntriesIn(Tail(calls))

\* Entries the remaining listings may still return.
Budget == MaxEntries - EntriesIn(listed)

Call(path, ok, entries) == [path |-> path, ok |-> ok, entries |-> entries]

\* A listing failure that is skipped over instead of ending the run.
Swallowed == "scan"

\* Where an OSError raised by os.listdir leaves the run: nothing catches it.
Uncaught == "aborted"

Init ==
    /\ pc = "start"
    /\ artists = <<>>
    /\ artist_name = <<>>
    /\ albums = <<>>
    /\ all_albums = <<>>
    /\ album_list = <<>>
    /\ next_id = 0
    /\ stdout = <<>>
    /\ out_file = OldFile
    /\ listed = <<>>
    /\ origin = <<>>

\* ---- dict operations on all_albums ---------------------------------------
hasKey(d, k) == \E i \in 1..Len(d) : d[i].key = k

\* all_albums[album_key]["songs"].append / extend for key k.
appendSongs(d, k, songs) ==
    [i \in 1..Len(d) |->
        IF d[i].key = k
        THEN [d[i] EXCEPT !.value.songs = @ \o songs]
        ELSE d[i]]

\* A new key inserted in front of the others.
setdefaultFront(d, k, name, artist) ==
    IF hasKey(d, k) THEN d
    ELSE <<[key |-> k,
           value |-> [name |-> name, artist |-> artist, songs |-> <<>>]]>> \o d

\* Lines 33-38: a new key is inserted at the end of the dict.
setdefault(d, k, name, artist) ==
    IF hasKey(d, k) THEN d
    ELSE Append(d, [key |-> k,
                    value |-> [name |-> name, artist |-> artist, songs |-> <<>>]])

\* Only the albums that have songs.
valuesWithSongs(d) ==
    LET kept == SelectSeq(d, LAMBDA a : a.value.songs # <<>>)
    IN  [i \in 1..Len(kept) |-> kept[i].value]

\* list(all_albums.values()), line 60.
values(d) == [i \in 1..Len(d) |-> d[i].value]

\* An id source that repeats a value within one album directory.
uuid4Repeating(n, i) == n + 1

\* str(uuid.uuid4()) as a fresh-value source: the i-th id drawn after n.
uuid4(n, i) == n + i

\* Lines 43-55: the song entry of an accepted file name.
songEntry(id, artist_name_norm, album_name_norm, song_filename) ==
    LET song_filename_norm == NFC(song_filename)
    IN  [id |-> id,
         title |-> splitext(song_filename_norm)[1],
         artist |-> artist_name_norm,
         album |-> album_name_norm,
         relativePath |-> relativePath(artist_name_norm, album_name_norm,
                                       song_filename_norm)]

\* Line 42: the entries of an album listing that become songs.
accepted(listing) == SelectSeq(listing, LAMBDA e : isAudioName(e.name))

----------------------------------------------------------------------------
\* Lines 17, 20: print the start message and list the root folder.
Start ==
    /\ pc = "start"
    /\ stdout' = Append(stdout, <<"start">>)
    /\ \/ /\ pc' = Uncaught
          /\ listed' = Append(listed, Call(<<>>, FALSE, <<>>))
          /\ UNCHANGED artists
       \/ \E l \in Listings(RootEntries, Budget) :
            /\ pc' = "scan"
            /\ artists' = l
            /\ listed' = Append(listed, Call(<<>>, TRUE, l))
    /\ UNCHANGED <<artist_name, albums, all_albums, album_list, next_id,
                   out_file, origin>>

\* Lines 20-24: next root entry; an artist directory is listed.
VisitArtist ==
    /\ pc = "scan"
    /\ albums = <<>>
    /\ artists # <<>>
    /\ LET entry == Head(artists)
       IN  /\ artists' = Tail(artists)
           /\ IF isVisited(entry)
              THEN /\ artist_name' = entry.name
                   /\ \/ /\ pc' = Uncaught
                         /\ listed' = Append(listed, Call(<<entry.name>>, FALSE, <<>>))
                         /\ UNCHANGED albums
                      \/ \E l \in Listings(ArtistEntries, Budget) :
                           /\ pc' = "scan"
                           /\ albums' = l
                           /\ listed' = Append(listed, Call(<<entry.name>>, TRUE, l))
              ELSE UNCHANGED <<pc, artist_name, albums, listed>>
    /\ UNCHANGED <<all_albums, album_list, next_id, stdout, out_file, origin>>

\* Lines 24-57: next entry of the artist directory; an album directory gets
\* its record (created or reused) and its files are appended as songs.
VisitAlbum ==
    /\ pc = "scan"
    /\ albums # <<>>
    /\ LET entry == Head(albums)
           artist_name_norm == NFC(artist_name)
           album_name_norm == NFC(entry.name)
           album_key == albumKey(artist_name_norm, album_name_norm)
           created == setdefault(all_albums, album_key, album_name_norm,
                                 artist_name_norm)
           path == <<artist_name, entry.name>>
       IN  /\ albums' = Tail(albums)
           /\ IF isVisited(entry)
              THEN \/ /\ pc' = Uncaught
                      /\ listed' = Append(listed, Call(path, FALSE, <<>>))
                      /\ all_albums' = created
                      /\ UNCHANGED <<next_id, origin>>
                   \/ \E l \in Listings(AlbumEntries, Budget) :
                        LET files == accepted(l)
                            songs == [i \in 1..Len(files) |->
                                        songEntry(uuid4(next_id, i), artist_name_norm,
                                                  album_name_norm, files[i].name)]
                        IN  /\ pc' = "scan"
                            /\ listed' = Append(listed, Call(path, TRUE, l))
                            /\ all_albums' = appendSongs(created, album_key, songs)
                            /\ next_id' = next_id + Len(files)
                            /\ origin' = origin \o
                                 [i \in 1..Len(files) |->
                                    [artist |-> artist_name, album |-> entry.name,
                                     file |-> files[i].name, isdir |-> files[i].isdir]]
              ELSE UNCHANGED <<pc, listed, all_albums, next_id, origin>>
    /\ UNCHANGED <<artists, artist_name, album_list, stdout, out_file>>

\* Line 60: the traversal is over, the dict becomes a list.
FinishScan ==
    /\ pc = "scan"
    /\ albums = <<>>
    /\ artists = <<>>
    /\ album_list' = values(all_albums)
    /\ pc' = "open"
    /\ UNCHANGED <<artists, artist_name, albums, all_albums, next_id, stdout,
                   out_file, listed, origin>>

\* A string json.dump cannot encode to UTF-8.
unencodable(s) == \E i \in 1..Len(s) : s[i] = SURROGATE

hasUnencodable(list) ==
    \E i \in 1..Len(list) :
        \/ unencodable(list[i].name)
        \/ unencodable(list[i].artist)
        \/ \E j \in 1..Len(list[i].songs) :
             unencodable(list[i].songs[j].relativePath)

\* Line 64: open(output_file, 'w'); an OSError is caught at line 67.
OpenOutput ==
    /\ pc = "open"
    /\ \/ /\ out_file' = [state |-> "truncated", albums |-> <<>>]
          /\ pc' = "dump"
          /\ UNCHANGED stdout
       \/ /\ stdout' = Append(stdout, <<"error">>)
          /\ pc' = "done"
          /\ UNCHANGED out_file
    /\ UNCHANGED <<artists, artist_name, albums, all_albums, album_list, next_id,
                   listed, origin>>

\* Lines 65-68: json.dump, close, and the message.  An OSError is caught and
\* reported; a UnicodeEncodeError is a ValueError and is not caught.
DumpJson ==
    /\ pc = "dump"
    /\ \/ /\ out_file' = [state |-> "partial", albums |-> <<>>]
          /\ stdout' = Append(stdout, <<"error">>)
          /\ pc' = "done"
       \/ /\ hasUnencodable(album_list)
          /\ out_file' = [state |-> "partial", albums |-> <<>>]
          /\ pc' = "crashed"
          /\ UNCHANGED stdout
       \/ /\ ~hasUnencodable(album_list)
          /\ out_file' = [state |-> "written", albums |-> album_list]
          /\ stdout' = Append(stdout, <<"success", Len(album_list)>>)
          /\ pc' = "done"
    /\ UNCHANGED <<artists, artist_name, albums, all_albums, album_list, next_id,
                   listed, origin>>

Next ==
    \/ Start
    \/ VisitArtist
    \/ VisitAlbum
    \/ FinishScan
    \/ OpenOutput
    \/ DumpJson

Spec == Init /\ [][Next]_vars

----------------------------------------------------------------------------
\* ---- vocabulary of the properties ----------------------------------------
\* The index exists once line 60 has run.
Generated == pc \in {"open", "dump", "done", "crashed"}

\* The os.listdir calls on album directories, in the order they were made:
\* one per (artist directory, album directory) pair that passed lines 23, 26.
albumCalls == SelectSeq(listed, LAMBDA c : Len(c.path) = 2)

normPair(path) == <<NFC(path[1]), NFC(path[2])>>

keyOfPath(path) == albumKey(NFC(path[1]), NFC(path[2]))

fileOrigin(path, e) ==
    [artist |-> path[1], album |-> path[2], file |-> e.name, isdir |-> e.isdir]

originsOf(path, entries) == [i \in 1..Len(entries) |-> fileOrigin(path, entries[i])]

\* Where the songs of a record came from, in the order of its songs list.
songOrigins(record) == [j \in 1..Len(record.songs) |-> origin[record.songs[j].id]]

\* The extension of a file name by its text: from its last dot on.
extensionOf(name) ==
    IF rfind(name, ".") = 0 THEN <<>> ELSE SubSeq(name, rfind(name, "."), Len(name))

hasAudioExtension(name) == lower(extensionOf(name)) \in AudioExtensions

lastComponent(path) == SubSeq(path, rfind(path, "/") + 1, Len(path))

\* The audio files the listed album directories selected by Test hold, in
\* the order of the walk; Keep selects the entries that count.
FilesFound(calls, Test(_), Keep(_)) ==
    LET RECURSIVE upTo(_)
        upTo(n) ==
            IF n = 0 THEN <<>>
            ELSE upTo(n - 1) \o
                 (IF Test(calls[n].path)
                  THEN originsOf(calls[n].path, SelectSeq(calls[n].entries, Keep))
                  ELSE <<>>)
    IN  upTo(Len(calls))

byName(e) == isAudioName(e.name)

audioFile(e) == ~e.isdir /\ hasAudioExtension(e.name)

songCount == Len(origin)

\* All songs of the dict as <<album position, song position>> pairs.
songSlots(d) == {<<i, j>> \in (1..Len(d)) \X (1..MaxEntries + 1) : j <= Len(d[i].value.songs)}

----------------------------------------------------------------------------
\* C1 (as claimed): two visited album directories with byte-distinct raw
\* names and the same normalized artist and album names give exactly one
\* AlbumRecord of that artist and name, and its songs are exactly the audio
\* files of the directories of that normalized pair, each once.
C1_AlbumMerge ==
    Generated =>
      \A m, n \in 1..Len(albumCalls) :
        (m < n /\ albumCalls[m].path # albumCalls[n].path
               /\ normPair(albumCalls[m].path) = normPair(albumCalls[n].path)) =>
          LET np == normPair(albumCalls[m].path)
              recs == {k \in 1..Len(album_list) :
                         album_list[k].artist = np[1] /\ album_list[k].name = np[2]}
          IN  /\ Cardinality(recs) = 1
              /\ \A k \in recs :
                   songOrigins(album_list[k]) =
                     FilesFound(albumCalls, LAMBDA p : normPair(p) = np, byName)

\* C2 (as claimed): every song of the index lies in exactly one AlbumRecord,
\* carries that record's artist and name, and these are the normalized names
\* of the artist and album directories its file was found in.
C2_SongBelongsToItsAlbum ==
    Generated =>
      /\ \A k \in 1..Len(album_list) : \A j \in 1..Len(album_list[k].songs) :
           LET R == album_list[k]
               S == R.songs[j]
           IN  /\ S.artist = R.artist
               /\ S.album = R.name
               /\ S.artist = NFC(origin[S.id].artist)
               /\ S.album = NFC(origin[S.id].album)
      /\ \A id \in 1..songCount :
           Cardinality({s \in songSlots(all_albums) :
                          all_albums[s[1]].value.songs[s[2]].id = id}) = 1

\* C3: a directory whose name starts with "." at the artist or album level
\* is never listed and is the origin of no AlbumRecord and of no SongRecord.
C3_HiddenExcluded ==
    /\ \A c \in 1..Len(listed) : \A k \in 1..Len(listed[c].path) :
         ~isHidden(listed[c].path[k])
    /\ \A i \in 1..Len(all_albums) :
         /\ ~isHidden(all_albums[i].value.artist)
         /\ ~isHidden(all_albums[i].value.name)
         /\ \E c \in 1..Len(albumCalls) :
              keyOfPath(albumCalls[c].path) = all_albums[i].key
    /\ \A id \in 1..songCount :
         /\ ~isHidden(origin[id].artist)
         /\ ~isHidden(origin[id].album)
         /\ \E c \in 1..Len(albumCalls) :
              albumCalls[c].path = <<origin[id].artist, origin[id].album>>

\* A hidden directory was met at the artist level and at the album level, the
\* walk went past both and the index was written with an album in it.
C3_Witness ==
    /\ pc = "done"
    /\ out_file.state = "written"
    /\ Len(album_list) >= 1
    /\ \E c \in 1..Len(listed) :
         /\ Len(listed[c].path) = 0
         /\ \E k \in 1..Len(listed[c].entries) :
              listed[c].entries[k].isdir /\ isHidden(listed[c].entries[k].name)
    /\ \E c \in 1..Len(listed) :
         /\ Len(listed[c].path) = 1
         /\ \E k \in 1..Len(listed[c].entries) :
              listed[c].entries[k].isdir /\ isHidden(listed[c].entries[k].name)

\* C4 (as claimed): every song comes from a file with an allowed extension
\* (case-insensitive), and each listed album directory yields exactly one
\* song per such file and none for its other entries.
C4_ExtensionFilter ==
    /\ \A id \in 1..songCount :
         ~origin[id].isdir /\ hasAudioExtension(origin[id].file)
    /\ \A c \in 1..Len(albumCalls) :
         albumCalls[c].ok =>
           SelectSeq(origin, LAMBDA o : <<o.artist, o.album>> = albumCalls[c].path)
             = originsOf(albumCalls[c].path,
                         SelectSeq(albumCalls[c].entries, audioFile))

\* C5 (as claimed): the title followed by the matched extension, in the file
\* name's letter case, is the last component of relativePath.
C5_TitleDerivation ==
    \A s \in songSlots(all_albums) :
      LET S == all_albums[s[1]].value.songs[s[2]]
          filename == lastComponent(S.relativePath)
      IN  /\ filename = NFC(origin[S.id].file)
          /\ \E n \in 1..Len(filename) :
               LET ext == SubSeq(filename, n, Len(filename))
               IN  /\ lower(ext) \in AudioExtensions
                   /\ S.title \o ext = filename

\* C6: the ids of all songs of one run are pairwise distinct.
C6_IdsUnique ==
    \A s, t \in songSlots(all_albums) :
      s # t => all_albums[s[1]].value.songs[s[2]].id
                 # all_albums[t[1]].value.songs[t[2]].id

\* An album merged from two directories holds songs of both.
C6_Witness ==
    /\ Generated
    /\ \E i \in 1..Len(album_list) :
         /\ Len(album_list[i].songs) >= 2
         /\ \E j, k \in 1..Len(album_list[i].songs) :
              origin[album_list[i].songs[j].id].album
                # origin[album_list[i].songs[k].id].album

\* The album keys of the visited album directories, each at its first visit.
keysInVisitOrder ==
    LET RECURSIVE upTo(_)
        upTo(n) ==
            IF n = 0 THEN <<>>
            ELSE IF \E m \in 1..(n - 1) :
                      keyOfPath(albumCalls[m].path) = keyOfPath(albumCalls[n].path)
                 THEN upTo(n - 1)
                 ELSE Append(upTo(n - 1), keyOfPath(albumCalls[n].path))
    IN  upTo(Len(albumCalls))

\* C7: albums are emitted in the order their keys were first created, and
\* the songs of each album are in the order they were discovered: directory
\* after directory in visiting order, each in listing order.
C7_DiscoveryOrder ==
    /\ [i \in 1..Len(all_albums) |-> all_albums[i].key] = keysInVisitOrder
    /\ \A i \in 1..Len(all_albums) :
         songOrigins(all_albums[i].value) =
           FilesFound(albumCalls, LAMBDA p : keyOfPath(p) = all_albums[i].key, byName)
    /\ Generated =>
         /\ Len(album_list) = Len(all_albums)
         /\ \A i \in 1..Len(album_list) : album_list[i] = all_albums[i].value
    /\ out_file.state = "written" => out_file.albums = album_list

\* A directory merged into the first album after a second album was created,
\* and brought a song with it.
C7_Witness ==
    /\ pc = "done"
    /\ out_file.state = "written"
    /\ Len(album_list) = 2
    /\ \E m, n, q \in 1..Len(albumCalls) :
         /\ m < n /\ n < q
         /\ keyOfPath(albumCalls[m].path) = keyOfPath(albumCalls[q].path)
         /\ keyOfPath(albumCalls[m].path) # keyOfPath(albumCalls[n].path)
         /\ \E j \in 1..Len(album_list[1].songs) :
              origin[album_list[1].songs[j].id].album = albumCalls[q].path[2]

\* C8: once a directory listing has failed the run is aborted, the output
\* file keeps its previous content and only the start message was printed;
\* the output file is touched only after the whole walk listed successfully.
C8_ListFailureWritesNothing ==
    /\ (\E c \in 1..Len(listed) : ~listed[c].ok) =>
         /\ pc = "aborted"
         /\ out_file = OldFile
         /\ stdout = << <<"start">> >>
    /\ out_file # OldFile =>
         /\ artists = <<>> /\ albums = <<>>
         /\ \A c \in 1..Len(listed) : listed[c].ok

\* The listing of an album directory failed after songs had been collected.
C8_Witness ==
    /\ pc = "aborted"
    /\ songCount >= 1
    /\ Len(listed[Len(listed)].path) = 2
    /\ ~listed[Len(listed)].ok

\* C9 (as claimed): a run whose traversal completed ends with exactly one
\* message after the start message: the completion message with the album
\* count when the file was written, the error message when opening or
\* writing failed; it never ends in an uncaught error.
C9_WriteOutcomeReported ==
    /\ pc # "crashed"
    /\ pc \in {"open", "dump"} => stdout = << <<"start">> >>
    /\ pc = "done" =>
         /\ Len(stdout) = 2
         /\ stdout[1] = <<"start">>
         /\ \/ stdout[2] = <<"success", Len(album_list)>> /\ out_file.state = "written"
            \/ stdout[2] = <<"error">> /\ out_file.state # "written"

\* C10: an album directory without accepted entries still has its record,
\* with no songs; the number of records, and the count of the completion
\* message, is the number of distinct keys of the visited album directories.
C10_EmptyAlbumsKept ==
    Generated =>
      LET keys == {keyOfPath(albumCalls[c].path) : c \in 1..Len(albumCalls)}
      IN  /\ Len(album_list) = Cardinality(keys)
          /\ \A k \in keys :
               \E i \in 1..Len(album_list) :
                 /\ i <= Len(all_albums)
                 /\ all_albums[i].key = k
                 /\ Len(album_list[i].songs) =
                      Len(FilesFound(albumCalls, LAMBDA p : keyOfPath(p) = k, byName))
          /\ \A i \in 1..Len(stdout) :
               stdout[i][1] = "success" =>
                 /\ stdout[i][2] = Cardinality(keys)
                 /\ Len(out_file.albums) = Cardinality(keys)

\* The index was written with an album whose directory holds entries but no
\* audio file, next to an album with a song; both are counted.
C10_Witness ==
    /\ pc = "done"
    /\ stdout[Len(stdout)] = <<"success", 2>>
    /\ \E i, j \in 1..Len(out_file.albums) :
         /\ out_file.albums[i].songs = <<>>
         /\ out_file.albums[j].songs # <<>>
    /\ \E c \in 1..Len(albumCalls) :
         /\ albumCalls[c].entries # <<>>
         /\ accepted(albumCalls[c].entries) = <<>>

====
